---- MODULE Spec2Model ----
(***************************************************************************)
(* Model of the tree renderer of interactive-json-tree.                    *)
(*                                                                         *)
(* Two variants are modelled: the extended renderer                        *)
(* (src/src/interactive_json_tree/__init__.py, names as in the source) and *)
(* the minimal renderer (src/src/json_tree/__init__.py, names prefixed     *)
(* jt_).  A Python value graph is a heap of containers addressed by their  *)
(* identity id(obj); the recursion of _to_html is an explicit call stack,  *)
(* one action per loop iteration / call / return.  Markup is kept as a     *)
(* tree of element records whose text is a sequence of characters, so that *)
(* escaping, number formatting and truncation are computed, not assumed.   *)
(* The <style> block and the uuid scope identifier wrapped around the body *)
(* are not part of the model: the model's result is the tree body.         *)
(***************************************************************************)
EXTENDS Integers, Sequences, FiniteSets, TLC

VARIABLES heap, call, pc, seen, stack, body, instances

vars == <<heap, call, pc, seen, stack, body, instances>>

-----------------------------------------------------------------------------
(* Bounds of the explored inputs.                                          *)

MaxExpand == 3        \* expand_depth ranges over 0..MaxExpand
MaxMC == 3            \* explicit max_children ranges over -1..MaxMC
MaxMSL == 2           \* explicit max_string_length ranges over -1..MaxMSL
JMaxExpand == 1       \* JSON(...): expand_depth ranges over 0..JMaxExpand
JMaxMC == 0           \* JSON(...): explicit max_children over -1..JMaxMC
JMaxMSL == 0          \* JSON(...): explicit max_string_length over 0..JMaxMSL

(* Defaults of the keyword arguments.                                      *)
DefaultExpandDepth == 1
DefaultMaxChildren == 100
DefaultMaxStringLength == 2000

-----------------------------------------------------------------------------
(* Python values.  A value is a primitive or a reference to a container of *)
(* the heap; an option that may be None is <<>> for None and <<n>> for n.  *)
(* Numbers are ints; Other(r) is a value of any other type with repr r.    *)

Ref(i)   == [t |-> "ref",   ref |-> i, s |-> <<>>, n |-> 0, b |-> FALSE]
Str(s)   == [t |-> "str",   ref |-> 0, s |-> s,    n |-> 0, b |-> FALSE]
Null     == [t |-> "null",  ref |-> 0, s |-> <<>>, n |-> 0, b |-> FALSE]
Bool(b)  == [t |-> "bool",  ref |-> 0, s |-> <<>>, n |-> 0, b |-> b]
Num(n)   == [t |-> "num",   ref |-> 0, s |-> <<>>, n |-> n, b |-> FALSE]
Other(r) == [t |-> "other", ref |-> 0, s |-> r,    n |-> 0, b |-> FALSE]

NoKey     == [t |-> "none", i |-> 0, s |-> <<>>]
IdxKey(i) == [t |-> "int",  i |-> i, s |-> <<>>]
StrKey(s) == [t |-> "str",  i |-> 0, s |-> s]

None == <<>>
Some(n) == <<n>>

Mapping(ks, vs) == [kind |-> "map", keys |-> ks, vals |-> vs]
Sequence(vs)    == [kind |-> "seq", keys |-> <<>>, vals |-> vs]

Max(a, b) == IF a >= b THEN a ELSE b
Min(a, b) == IF a <= b THEN a ELSE b

-----------------------------------------------------------------------------
(* Text.                                                                   *)

Digit(d) == <<"0", "1", "2", "3", "4", "5", "6", "7", "8", "9">>[d + 1]

RECURSIVE NatStr(_)
NatStr(n) == IF n < 10 THEN <<Digit(n)>>
             ELSE NatStr(n \div 10) \o <<Digit(n % 10)>>

\* str(n) / f"{n}" of a Python int
IntStr(n) == IF n < 0 THEN <<"-">> \o NatStr(-n) ELSE NatStr(n)

\* str(k) of a key
KeyStr(k) == IF k.t = "int" THEN IntStr(k.i) ELSE k.s

EscChar(c) == IF c = "&" THEN <<"&", "a", "m", "p", ";">>
              ELSE IF c = "<" THEN <<"&", "l", "t", ";">>
              ELSE IF c = ">" THEN <<"&", "g", "t", ";">>
              ELSE <<c>>

RECURSIVE esc(_)
esc(x) == IF x = <<>> THEN <<>> ELSE EscChar(Head(x)) \o esc(Tail(x))

\* v[:n] for n >= 0
Prefix(v, n) == SubSeq(v, 1, Min(n, Len(v)))

-----------------------------------------------------------------------------
(* Markup.  A span is a run of text with a class ("" for bare text, "em"   *)
(* for <em>); an element is a <details> or a <div> with its class, its     *)
(* open attribute, its margin-left in units of _INDENT_REM (-1: no style   *)
(* attribute), its own line (the <summary> of a <details>) and its rows.   *)

Span(cls, text) == [cls |-> cls, text |-> text]

Div(cls, margin, line) ==
    [tag |-> "div", cls |-> cls, open |-> FALSE, margin |-> margin,
     line |-> line, rows |-> <<>>]

Details(open, margin, line, rows) ==
    [tag |-> "details", cls |-> "jt-details", open |-> open, margin |-> margin,
     line |-> line, rows |-> rows]

NoBody == Div("", -1, <<>>)

\* mutation: an index is labelled like a named key
key_prefix_html_Quoted(k, is_index) ==
    IF k.t = "none" THEN <<>>
    ELSE <<Span("jt-key", <<"\"">> \o esc(KeyStr(k)) \o <<"\"">>),
           Span("jt-punct", <<":", " ">>)>>

key_prefix_html(k, is_index) ==
    IF k.t = "none" THEN <<>>
    ELSE IF is_index
         THEN <<Span("jt-key", <<"[">> \o KeyStr(k) \o <<"]">>),
                Span("jt-punct", <<":", " ">>)>>
         ELSE <<Span("jt-key", <<"\"">> \o esc(KeyStr(k)) \o <<"\"">>),
                Span("jt-punct", <<":", " ">>)>>

\* mutation: a string exactly at the limit is truncated too
fmt_primitive_AtLimit(v, max_string_length) ==
    IF v.t = "str"
    THEN IF /\ max_string_length # None
            /\ max_string_length[1] >= 0
            /\ Len(v.s) >= max_string_length[1]
         THEN <<Span("jt-str jt-str-trunc",
                     <<"\"">> \o esc(Prefix(v.s, max_string_length[1]))
                              \o <<".", ".", ".", "\"">>)>>
         ELSE <<Span("jt-str", <<"\"">> \o esc(v.s) \o <<"\"">>)>>
    ELSE IF v.t = "null" THEN <<Span("jt-null", <<"n", "u", "l", "l">>)>>
    ELSE IF v.t = "bool"
         THEN <<Span("jt-bool", IF v.b THEN <<"t", "r", "u", "e">>
                                       ELSE <<"f", "a", "l", "s", "e">>)>>
    ELSE IF v.t = "num" THEN <<Span("jt-num", IntStr(v.n))>>
    ELSE <<Span("", esc(v.s))>>

fmt_primitive(v, max_string_length) ==
    IF v.t = "str"
    THEN IF /\ max_string_length # None
            /\ max_string_length[1] >= 0
            /\ Len(v.s) > max_string_length[1]
         THEN <<Span("jt-str jt-str-trunc",
                     <<"\"">> \o esc(Prefix(v.s, max_string_length[1]))
                              \o <<".", ".", ".", "\"">>)>>
         ELSE <<Span("jt-str", <<"\"">> \o esc(v.s) \o <<"\"">>)>>
    ELSE IF v.t = "null" THEN <<Span("jt-null", <<"n", "u", "l", "l">>)>>
    ELSE IF v.t = "bool"
         THEN <<Span("jt-bool", IF v.b THEN <<"t", "r", "u", "e">>
                                       ELSE <<"f", "a", "l", "s", "e">>)>>
    ELSE IF v.t = "num" THEN <<Span("jt-num", IntStr(v.n))>>
    ELSE <<Span("", esc(v.s))>>

\* mutation: a bool is formatted as Python prints it
jt_fmt_primitive_PyBool(v) ==
    IF v.t = "str" THEN <<Span("jt-str", <<"\"">> \o esc(v.s) \o <<"\"">>)>>
    ELSE IF v.t = "null" THEN <<Span("jt-null", <<"n", "u", "l", "l">>)>>
    ELSE IF v.t = "bool"
         THEN <<Span("jt-bool", IF v.b THEN <<"T", "r", "u", "e">>
                                       ELSE <<"F", "a", "l", "s", "e">>)>>
    ELSE IF v.t = "num" THEN <<Span("jt-num", IntStr(v.n))>>
    ELSE <<Span("", esc(v.s))>>

jt_fmt_primitive(v) ==
    IF v.t = "str" THEN <<Span("jt-str", <<"\"">> \o esc(v.s) \o <<"\"">>)>>
    ELSE IF v.t = "null" THEN <<Span("jt-null", <<"n", "u", "l", "l">>)>>
    ELSE IF v.t = "bool"
         THEN <<Span("jt-bool", IF v.b THEN <<"t", "r", "u", "e">>
                                       ELSE <<"f", "a", "l", "s", "e">>)>>
    ELSE IF v.t = "num" THEN <<Span("jt-num", IntStr(v.n))>>
    ELSE <<Span("", esc(v.s))>>

CircularLeaf ==
    Div("jt-leaf", -1,
        <<Span("em", <<"[", "C", "i", "r", "c", "u", "l", "a", "r", "]">>)>>)

\* mutation: a negative bound shows nothing instead of everything
Visible_NegativeIsZero(size, max_children) ==
    IF max_children # None
    THEN Min(size, Max(max_children[1], 0))
    ELSE size

\* mutation: one child too many is let through
Visible_OneMore(size, max_children) ==
    IF max_children # None /\ max_children[1] >= 0
    THEN Min(size, max_children[1] + 1)
    ELSE size

\* visible = size, lowered to min(size, max_children) for a bound >= 0
Visible(size, max_children) ==
    IF max_children # None /\ max_children[1] >= 0
    THEN Min(size, max_children[1])
    ELSE size

count_display(visible, size) ==
    IF visible # size THEN IntStr(visible) \o <<"/">> \o IntStr(size)
    ELSE IntStr(size)

TypeTag(kind) ==
    IF kind = "map" THEN <<"{", "}", " ", "O", "b", "j", "e", "c", "t", " ">>
    ELSE <<"[", "]", " ", "A", "r", "r", "a", "y", " ">>

summary_label(kind, key, key_is_index, visible, size) ==
    key_prefix_html(key, key_is_index)
    \o <<Span("", TypeTag(kind)),
         Span("jt-punct", <<"(">> \o count_display(visible, size) \o <<")">>)>>

jt_summary_label(kind, key, key_is_index, size) ==
    key_prefix_html(key, key_is_index)
    \o <<Span("", TypeTag(kind)),
         Span("jt-punct", <<"(">> \o IntStr(size) \o <<")">>)>>

\* the "... N more item(s)" row
MoreRow(level, remaining) ==
    Div("jt-more", level + 1,
        <<Span("em", <<".", ".", ".", " ">> \o IntStr(remaining)
                     \o <<" ", "m", "o", "r", "e", " ", "i", "t", "e", "m">>
                     \o (IF remaining # 1 THEN <<"s">> ELSE <<>>))>>)

-----------------------------------------------------------------------------
(* Value graphs.  heap[i] is the container whose identity id(obj) is i.    *)

\* {"a": 1, "b": [1, 2, 3]}
HeapExample ==
    <<Mapping(<<StrKey(<<"a">>), StrKey(<<"b">>)>>, <<Num(1), Ref(2)>>),
      Sequence(<<Num(1), Num(2), Num(3)>>)>>

\* l = [1]; l.append(l)
HeapSelfList == <<Sequence(<<Num(1), Ref(1)>>)>>

\* a = {"s": "a<b"}; b = {"y": a, "n": None}; a["x"] = b
HeapMutual ==
    <<Mapping(<<StrKey(<<"s">>), StrKey(<<"x">>)>>,
              <<Str(<<"a", "<", "b">>), Ref(2)>>),
      Mapping(<<StrKey(<<"y">>), StrKey(<<"n">>)>>, <<Ref(1), Null>>)>>

\* s = {"k": True}; [s, s, "abc", s]
HeapShared ==
    <<Sequence(<<Ref(2), Ref(2), Str(<<"a", "b", "c">>), Ref(2)>>),
      Mapping(<<StrKey(<<"k">>)>>, <<Bool(TRUE)>>)>>

\* {"p": [{"q": ["x>y", {}], 7: "ab"}, {1}], "t": False}
HeapDeep ==
    <<Mapping(<<StrKey(<<"p">>), StrKey(<<"t">>)>>, <<Ref(2), Bool(FALSE)>>),
      Sequence(<<Ref(3), Other(<<"{", "1", "}">>)>>),
      Mapping(<<StrKey(<<"q">>), IdxKey(7)>>, <<Ref(4), Str(<<"a", "b">>)>>),
      Sequence(<<Str(<<"x", ">", "y">>), Ref(5)>>),
      Mapping(<<>>, <<>>)>>

\* ["", "a", "a&", -12, [], "abc"] and {"<k>": "ab", "b": 10, "c": None, "d": ()}
HeapWide ==
    <<Sequence(<<Str(<<>>), Str(<<"a">>), Str(<<"a", "&">>), Num(-12), Ref(3),
                 Str(<<"a", "b", "c">>)>>),
      Mapping(<<StrKey(<<"<", "k", ">">>), StrKey(<<"b">>), StrKey(<<"c">>),
                StrKey(<<"d">>)>>,
              <<Str(<<"a", "b">>), Num(10), Null, Ref(3)>>),
      Sequence(<<>>)>>

\* a list one longer than the default max_children
HeapLong == <<Sequence([j \in 1..(DefaultMaxChildren + 1) |-> Num(7)])>>

Heaps == {HeapExample, HeapSelfList, HeapMutual, HeapShared, HeapDeep, HeapWide}

\* primitives passed directly as the root value
RootPrimitives == {Str(<<"a", "b", "c">>), Num(5)}

RootKeys == {NoKey, StrKey(<<"r">>)}

ExpandDepths == 0..MaxExpand
MaxChildrenArgs ==
    {None, Some(DefaultMaxChildren)} \cup {Some(n) : n \in -1..MaxMC}
MaxStringLengthArgs ==
    {None, Some(DefaultMaxStringLength)} \cup {Some(n) : n \in -1..MaxMSL}

JExpandDepths == 0..JMaxExpand
JMaxChildrenArgs == {Some(DefaultMaxChildren)} \cup {Some(n) : n \in -1..JMaxMC}
JMaxStringLengthArgs ==
    {Some(DefaultMaxStringLength)} \cup {Some(n) : n \in 0..JMaxMSL}

\* a limit that is switched off: None or negative
Unlimited == {None, Some(-1)}

\* <<max_children, max_string_length>> of a JSON(...) construction: the
\* explicit and default limits, and both limits switched off
JLimitArgs ==
    (JMaxChildrenArgs \X JMaxStringLengthArgs) \cup (Unlimited \X Unlimited)

\* the caller's variables: x = JSON(...), then y = JSON(...)
Slots == {"x", "y"}
MayBind(slot) == ~instances[slot].set /\ (slot = "x" \/ instances["x"].set)

-----------------------------------------------------------------------------
(* The call stack of _to_html.                                             *)

Frame(oid, expand_depth, level, key, key_is_index) ==
    [obj |-> oid, expand_depth |-> expand_depth, level |-> level,
     key |-> key, key_is_index |-> key_is_index, i |-> 0, rows |-> <<>>]

top == stack[Len(stack)]
obj == heap[top.obj]
size == Len(obj.vals)
child == obj.vals[top.i + 1]

\* (k, v) of obj.items() / (i, v) of enumerate(obj)
ChildKey == IF obj.kind = "map" THEN obj.keys[top.i + 1] ELSE IdxKey(top.i)
ChildKeyIsIndex == obj.kind = "seq"

\* the caller's frame after a call returned row: rows.append(row), next item
Appended(frame, row) ==
    [frame EXCEPT !.rows = Append(@, row), !.i = @ + 1]

ReplaceTop(frame) == [stack EXCEPT ![Len(stack)] = frame]

\* mutation: the countdown is not decremented
ChildExpandDepth_Same(expand_depth) == expand_depth

\* expand_depth=max(expand_depth - 1, 0) of a child call
ChildExpandDepth(expand_depth) == Max(expand_depth - 1, 0)

\* mutation: the cycle check never fires
InSeen_Never(oid, s) == FALSE

\* mutation: any non-empty set counts as a hit
InSeen_Any(oid, s) == s # {}

\* oid in seen
InSeen(oid, s) == oid \in s

\* mutation: the identity is not recorded
SeenAdd_Skip(s, oid) == s

\* seen.add(oid)
SeenAdd(s, oid) == s \cup {oid}

\* mutation: the set of the previous call is used again
FreshSeen_Stale(old) == old

\* seen=set() of the top-level call
FreshSeen(old) == {}

NoInstance ==
    [set |-> FALSE, variant |-> "", data |-> Null, expand_depth |-> 0,
     max_children |-> None, max_string_length |-> None, rendered |-> NoBody]

\* self.rendered = json_to_html_tree(self.data, ...) of the JSON under
\* construction, if the call c is one
Stored(c, result) ==
    IF c.target = "" THEN instances
    ELSE [instances EXCEPT ![c.target] =
            [set |-> TRUE, variant |-> c.variant, data |-> c.obj,
             expand_depth |-> c.expand_depth,
             max_children |-> c.max_children,
             max_string_length |-> c.max_string_length,
             rendered |-> result]]

TypeOK ==
    /\ pc \in {"idle", "running", "done"}
    /\ seen \subseteq 1..Len(heap)
    /\ call.variant \in {"", "interactive", "minimal"}
    /\ (pc = "running") = (stack # <<>>)

NoCall ==
    [variant |-> "", obj |-> Null, key |-> NoKey, expand_depth |-> 0,
     max_children |-> None, max_string_length |-> None, target |-> ""]

Init ==
    /\ heap \in Heaps
    /\ call = NoCall
    /\ pc = "idle"
    /\ seen = {}
    /\ stack = <<>>
    /\ body = NoBody
    /\ instances = [s \in Slots |-> NoInstance]

-----------------------------------------------------------------------------
(* Extended variant: interactive_json_tree.                                *)

\* The top-level call of _to_html: a fresh seen, the cycle check and the
\* push of the root container, or the leaf of a root primitive.
Begin(variant, o, key, expand_depth, max_children, max_string_length, target) ==
    /\ pc = "idle"
    /\ call' = [variant |-> variant, obj |-> o, key |-> key,
                expand_depth |-> expand_depth, max_children |-> max_children,
                max_string_length |-> max_string_length, target |-> target]
    /\ IF o.t = "ref"
       THEN IF InSeen(o.ref, FreshSeen(seen))
            THEN /\ seen' = FreshSeen(seen)
                 /\ stack' = <<>>
                 /\ body' = CircularLeaf
                 /\ pc' = "done"
            ELSE /\ seen' = SeenAdd(FreshSeen(seen), o.ref)
                 /\ stack' = <<Frame(o.ref, expand_depth, 0, key, FALSE)>>
                 /\ body' = NoBody
                 /\ pc' = "running"
       ELSE /\ seen' = FreshSeen(seen)
            /\ stack' = <<>>
            /\ body' = Div("jt-leaf", 0,
                           key_prefix_html(key, FALSE)
                           \o (IF variant = "interactive"
                               THEN fmt_primitive(o, max_string_length)
                               ELSE jt_fmt_primitive(o)))
            /\ pc' = "done"
    /\ instances' = IF pc' = "done" THEN Stored(call', body') ELSE instances
    /\ UNCHANGED heap

json_to_html_tree ==
    \E o \in {Ref(i) : i \in 1..Len(heap)} \cup RootPrimitives,
       key \in RootKeys, expand_depth \in ExpandDepths,
       max_children \in MaxChildrenArgs,
       max_string_length \in MaxStringLengthArgs :
        Begin("interactive", o, key, expand_depth, max_children,
              max_string_length, "")

\* JSON(data, expand_depth=.., max_children=.., max_string_length=..)
JSON_init ==
    \E slot \in Slots, i \in 1..Len(heap), expand_depth \in JExpandDepths,
       limits \in JLimitArgs :
        /\ MayBind(slot)
        /\ Begin("interactive", Ref(i), NoKey, expand_depth, limits[1],
                 limits[2], slot)

Running(variant) == pc = "running" /\ call.variant = variant

\* a container child that was not seen: _to_html(v, ...) is entered
ChildContainer ==
    /\ Running("interactive")
    /\ top.i < Visible(size, call.max_children)
    /\ child.t = "ref"
    /\ ~InSeen(child.ref, seen)
    /\ seen' = SeenAdd(seen, child.ref)
    /\ stack' = Append(stack, Frame(child.ref, ChildExpandDepth(top.expand_depth),
                                    top.level + 1, ChildKey, ChildKeyIsIndex))
    /\ UNCHANGED <<heap, call, pc, body, instances>>

\* a container child that was seen: _to_html(v, ...) returns the marker
ChildCircular ==
    /\ Running("interactive")
    /\ top.i < Visible(size, call.max_children)
    /\ child.t = "ref"
    /\ InSeen(child.ref, seen)
    /\ stack' = ReplaceTop(Appended(top, CircularLeaf))
    /\ UNCHANGED <<heap, call, pc, seen, body, instances>>

\* a primitive child: one leaf line
ChildPrimitive ==
    /\ Running("interactive")
    /\ top.i < Visible(size, call.max_children)
    /\ child.t # "ref"
    /\ stack' = ReplaceTop(Appended(top,
                   Div("jt-leaf", top.level + 1,
                       key_prefix_html(ChildKey, ChildKeyIsIndex)
                       \o fmt_primitive(child, call.max_string_length))))
    /\ UNCHANGED <<heap, call, pc, seen, body, instances>>

\* the rows of the finished loop, with the summary of the omitted children
RowsWithMore(frame, sz, visible) ==
    IF sz > visible
    THEN Append(frame.rows, MoreRow(frame.level, sz - visible))
    ELSE frame.rows

\* the <details> element returned for the container of frame
Rendered(frame) ==
    LET o == heap[frame.obj]
        sz == Len(o.vals)
        visible == Visible(sz, call.max_children)
    IN Details(frame.expand_depth > 0, frame.level,
               summary_label(o.kind, frame.key, frame.key_is_index, visible, sz),
               RowsWithMore(frame, sz, visible))

\* the loop is over: return to the calling frame, or to the top-level caller
Return ==
    /\ Running("interactive")
    /\ top.i = Visible(size, call.max_children)
    /\ IF Len(stack) = 1
       THEN /\ stack' = <<>>
            /\ body' = Rendered(top)
            /\ pc' = "done"
            /\ instances' = Stored(call, Rendered(top))
       ELSE /\ stack' = Append(SubSeq(stack, 1, Len(stack) - 2),
                               Appended(stack[Len(stack) - 1], Rendered(top)))
            /\ UNCHANGED <<body, pc, instances>>
    /\ UNCHANGED <<heap, call, seen>>

-----------------------------------------------------------------------------
(* Minimal variant: json_tree.                                             *)

jt_json_to_html_tree ==
    \E o \in {Ref(i) : i \in 1..Len(heap)} \cup RootPrimitives,
       key \in RootKeys, expand_depth \in ExpandDepths :
        Begin("minimal", o, key, expand_depth, None, None, "")

jt_JSON_init ==
    \E slot \in Slots, i \in 1..Len(heap), expand_depth \in JExpandDepths :
        /\ MayBind(slot)
        /\ Begin("minimal", Ref(i), NoKey, expand_depth, None, None, slot)

jt_ChildContainer ==
    /\ Running("minimal")
    /\ top.i < size
    /\ child.t = "ref"
    /\ ~InSeen(child.ref, seen)
    /\ seen' = SeenAdd(seen, child.ref)
    /\ stack' = Append(stack, Frame(child.ref, ChildExpandDepth(top.expand_depth),
                                    top.level + 1, ChildKey, ChildKeyIsIndex))
    /\ UNCHANGED <<heap, call, pc, body, instances>>

jt_ChildCircular ==
    /\ Running("minimal")
    /\ top.i < size
    /\ child.t = "ref"
    /\ InSeen(child.ref, seen)
    /\ stack' = ReplaceTop(Appended(top, CircularLeaf))
    /\ UNCHANGED <<heap, call, pc, seen, body, instances>>

jt_ChildPrimitive ==
    /\ Running("minimal")
    /\ top.i < size
    /\ child.t # "ref"
    /\ stack' = ReplaceTop(Appended(top,
                   Div("jt-leaf", top.level + 1,
                       key_prefix_html(ChildKey, ChildKeyIsIndex)
                       \o jt_fmt_primitive(child))))
    /\ UNCHANGED <<heap, call, pc, seen, body, instances>>

jt_Rendered(frame) ==
    LET o == heap[frame.obj]
    IN Details(frame.expand_depth > 0, frame.level,
               jt_summary_label(o.kind, frame.key, frame.key_is_index,
                                Len(o.vals)),
               frame.rows)

jt_Return ==
    /\ Running("minimal")
    /\ top.i = size
    /\ IF Len(stack) = 1
       THEN /\ stack' = <<>>
            /\ body' = jt_Rendered(top)
            /\ pc' = "done"
            /\ instances' = Stored(call, jt_Rendered(top))
       ELSE /\ stack' = Append(SubSeq(stack, 1, Len(stack) - 2),
                               Appended(stack[Len(stack) - 1], jt_Rendered(top)))
            /\ UNCHANGED <<body, pc, instances>>
    /\ UNCHANGED <<heap, call, seen>>

-----------------------------------------------------------------------------

\* the caller drops the returned markup; the set of the finished call is
\* left behind as garbage
Discard ==
    /\ pc = "done"
    /\ pc' = "idle"
    /\ call' = NoCall
    /\ body' = NoBody
    /\ UNCHANGED <<heap, seen, stack, instances>>

Step ==
    \/ ChildContainer
    \/ ChildCircular
    \/ ChildPrimitive
    \/ Return
    \/ jt_ChildContainer
    \/ jt_ChildCircular
    \/ jt_ChildPrimitive
    \/ jt_Return

\* direct calls of json_to_html_tree, one at a time
Next ==
    \/ json_to_html_tree
    \/ jt_json_to_html_tree
    \/ ChildContainer
    \/ ChildCircular
    \/ ChildPrimitive
    \/ Return
    \/ jt_ChildContainer
    \/ jt_ChildCircular
    \/ jt_ChildPrimitive
    \/ jt_Return
    \/ Discard

Spec == Init /\ [][Next]_vars

\* constructions of JSON objects bound to the variables of Slots
InitJSON ==
    /\ heap \in Heaps \cup {HeapLong}
    /\ call = NoCall
    /\ pc = "idle"
    /\ seen = {}
    /\ stack = <<>>
    /\ body = NoBody
    /\ instances = [s \in Slots |-> NoInstance]

NextJSON ==
    \/ JSON_init
    \/ jt_JSON_init
    \/ ChildContainer
    \/ ChildCircular
    \/ ChildPrimitive
    \/ Return
    \/ jt_ChildContainer
    \/ jt_ChildCircular
    \/ jt_ChildPrimitive
    \/ jt_Return
    \/ Discard

SpecJSON == InitJSON /\ [][NextJSON]_vars

\* a call that was started runs on until it returns: the renderer is
\* synchronous and never waits
SpecLive == Init /\ [][Next]_vars /\ WF_vars(Step)

-----------------------------------------------------------------------------
(* Vocabulary of the properties.  Every element of the markup is, right    *)
(* after it is made, a direct row of a frame of the stack or the body of   *)
(* the finished call, so a statement about all of them is a statement      *)
(* about the rows of the frames and the body.                              *)

Interactive == call.variant = "interactive"
Bounded(opt) == opt # None /\ opt[1] >= 0

KeyAt(o, j) == IF o.kind = "map" THEN o.keys[j] ELSE IdxKey(j - 1)

FrameIdx == 1..Len(stack)

\* the sections returned so far for container children and the section
\* returned by the finished call, each with the identity of its container
\* and its nesting depth: <<element, identity, depth>>
ReturnedSections ==
    UNION {{<<stack[k].rows[j], heap[stack[k].obj].vals[j].ref, k>> :
              j \in {i \in 1..Min(Len(stack[k].rows), Len(heap[stack[k].obj].vals)) :
                        /\ heap[stack[k].obj].vals[i].t = "ref"
                        /\ stack[k].rows[i].tag = "details"}} :
           k \in FrameIdx}
    \cup (IF pc = "done" /\ call.obj.t = "ref" /\ body.tag = "details"
          THEN {<<body, call.obj.ref, 0>>} ELSE {})

\* row is the rendering of the j-th child of container o
RowIsChild(row, o, j) ==
    LET v == o.vals[j]
        prefix == key_prefix_html(KeyAt(o, j), o.kind = "seq")
    IN IF v.t = "ref"
       THEN \/ row = CircularLeaf
            \/ /\ row.tag = "details"
               /\ SubSeq(row.line, 1, 2) = prefix
               /\ row.line[3].text = TypeTag(heap[v.ref].kind)
       ELSE /\ row.tag = "div"
            /\ row.cls = "jt-leaf"
            /\ SubSeq(row.line, 1, 2) = prefix
            /\ Len(row.line) = 3

\* the text of the summary of n omitted children
MoreText(n) ==
    <<".", ".", ".", " ">> \o IntStr(n)
    \o (IF n = 1 THEN <<" ", "m", "o", "r", "e", " ", "i", "t", "e", "m">>
        ELSE <<" ", "m", "o", "r", "e", " ", "i", "t", "e", "m", "s">>)

IsMoreRow(row, n) ==
    /\ row.tag = "div"
    /\ row.cls = "jt-more"
    /\ Len(row.line) = 1
    /\ row.line[1].text = MoreText(n)

\* C1: a container with more than max_children >= 0 children is rendered as
\* exactly max_children child rows, the first max_children children in
\* order, followed by one summary row that states the omitted count, worded
\* "item" for one and "items" otherwise.
C1_Truncation ==
    (Interactive /\ Bounded(call.max_children)) =>
        LET mc == call.max_children[1] IN
        /\ \A k \in FrameIdx :
              LET o == heap[stack[k].obj] IN
              Len(o.vals) > mc =>
                 /\ Len(stack[k].rows) <= mc
                 /\ \A j \in 1..Len(stack[k].rows) :
                       RowIsChild(stack[k].rows[j], o, j)
        /\ \A sec \in ReturnedSections :
              LET o == heap[sec[2]]
                  rows == sec[1].rows
              IN Len(o.vals) > mc =>
                 /\ Len(rows) = mc + 1
                 /\ \A j \in 1..mc : RowIsChild(rows[j], o, j)
                 /\ IsMoreRow(rows[mc + 1], Len(o.vals) - mc)

\* a finished list or mapping cut to max_children >= 1 with exactly one
\* child omitted, and a nested container cut as well
C1_Witness ==
    /\ pc = "done"
    /\ Interactive
    /\ call.max_children = Some(1)
    /\ call.obj = Ref(1)
    /\ heap = HeapMutual
    /\ Len(body.rows) = 2
    /\ IsMoreRow(body.rows[2], 1)

\* the escaped text of the characters cs, between quotes, with the
\* truncation marker when marked
Quoted(cs, marked) ==
    <<"\"">> \o esc(cs) \o (IF marked THEN <<".", ".", ".">> ELSE <<>>) \o <<"\"">>

\* span is the rendering of string s under the limit L
StringSpanOK(span, s, L) ==
    IF Len(s) > L
    THEN /\ span.cls = "jt-str jt-str-trunc"
         /\ span.text = Quoted([n \in 1..L |-> s[n]], TRUE)
    ELSE /\ span.cls = "jt-str"
         /\ span.text = Quoted(s, FALSE)

\* the leaf rows made so far for string children, with their strings
StringLeaves ==
    UNION {{<<stack[k].rows[j], heap[stack[k].obj].vals[j].s>> :
              j \in {i \in 1..Min(Len(stack[k].rows), Len(heap[stack[k].obj].vals)) :
                        heap[stack[k].obj].vals[i].t = "str"}} :
           k \in FrameIdx}
    \cup (IF pc = "done" /\ call.obj.t = "str"
          THEN {<<body, call.obj.s>>} ELSE {})

\* C2: under a limit L >= 0 a string longer than L is rendered as its first
\* L characters followed by the truncation marker, tagged as truncated; a
\* string of length at most L is rendered whole with the normal string tag.
C2_StringTruncation ==
    (Interactive /\ Bounded(call.max_string_length)) =>
        \A leaf \in StringLeaves :
            /\ leaf[1].tag = "div"
            /\ leaf[1].line # <<>>
            /\ StringSpanOK(leaf[1].line[Len(leaf[1].line)], leaf[2],
                            call.max_string_length[1])

\* one list holds a string exactly at the limit, rendered whole, and a
\* longer one, cut to the limit
C2_Witness ==
    /\ Interactive
    /\ call.max_string_length = Some(1)
    /\ \E k \in FrameIdx :
          \E i, j \in 1..Len(stack[k].rows) :
             LET o == heap[stack[k].obj] IN
             /\ o.vals[i].t = "str" /\ Len(o.vals[i].s) = 1
             /\ stack[k].rows[i].line[3].cls = "jt-str"
             /\ o.vals[j].t = "str" /\ Len(o.vals[j].s) = 2
             /\ stack[k].rows[j].line[3].cls = "jt-str jt-str-trunc"
             /\ Len(stack[k].rows[j].line[3].text) = 6

\* C3: a section at nesting depth d (the root at depth 0) starts expanded
\* exactly when d < expand_depth of the call; with expand_depth = 0 the root
\* is collapsed.
C3_ExpandDepth ==
    \A sec \in ReturnedSections : sec[1].open <=> (sec[3] < call.expand_depth)

\* expand_depth = 2: the sections at depths 0 and 1 are open, the one at
\* depth 2 is closed
C3_Witness ==
    /\ pc = "done"
    /\ call.expand_depth = 2
    /\ body.tag = "details" /\ body.open
    /\ body.rows # <<>>
    /\ body.rows[1].tag = "details" /\ body.rows[1].open
    /\ body.rows[1].rows # <<>>
    /\ body.rows[1].rows[1].tag = "details" /\ ~body.rows[1].rows[1].open

\* the number of children the loop of the running activation visits
CurVisible == IF Interactive THEN Visible(size, call.max_children) ELSE size

\* the loop of the running activation is at a container child
AtContainerChild == pc = "running" /\ top.i < CurVisible /\ child.t = "ref"

OnPath(oid) == \E k \in FrameIdx : stack[k].obj = oid

\* C4: a render of a value graph with a reference cycle terminates, and
\* where a container of the current path is met again a "[Circular]" leaf
\* is emitted instead of a recursive call.
C4_CyclesTerminate ==
    /\ [][(AtContainerChild /\ OnPath(child.ref) /\ stack' # stack)
            => stack' = ReplaceTop(Appended(top, CircularLeaf))]_vars
    /\ (pc = "running") ~> (pc = "done")

\* a list that holds itself was met again while its own loop is running
C4_Witness ==
    /\ pc = "running"
    /\ \E j \in 1..Len(top.rows) :
          /\ obj.vals[j] = Ref(top.obj)
          /\ top.rows[j] = CircularLeaf

\* C9: within one top-level call a container identity is expanded at most
\* once: a frame is pushed only for an identity that is not in seen, the
\* identity is in seen from the push on, before any child is processed,
\* seen only grows during the call, and a child whose identity is in seen,
\* also one shared by a sibling without any cycle, becomes a "[Circular]"
\* leaf with no frame pushed.
C9_ExpandedOnce ==
    [][/\ (pc = "running" => seen \subseteq seen')
       /\ (Len(stack') > Len(stack) =>
              LET f == stack'[Len(stack')] IN
              /\ Len(stack') = Len(stack) + 1
              /\ f.obj \in seen'
              /\ f.i = 0 /\ f.rows = <<>>
              /\ (pc = "running" => f.obj \notin seen)
              /\ (pc = "idle" => seen' = {f.obj}))
       /\ ((AtContainerChild /\ child.ref \in seen /\ stack' # stack)
              => stack' = ReplaceTop(Appended(top, CircularLeaf)))]_vars

\* a mapping shared by two siblings of a list: expanded for the first,
\* "[Circular]" for the second, although it is not on the current path
C9_Witness ==
    /\ pc = "running"
    /\ Len(top.rows) >= 2
    /\ obj.vals[1].t = "ref"
    /\ obj.vals[2] = obj.vals[1]
    /\ ~OnPath(obj.vals[1].ref)
    /\ top.rows[1].tag = "details"
    /\ top.rows[2] = CircularLeaf

-----------------------------------------------------------------------------
(* Shape of the value graph.                                               *)

RefPositions(i) == {j \in 1..Len(heap[i].vals) : heap[i].vals[j].t = "ref"}
Edges(i) == {heap[i].vals[j].ref : j \in RefPositions(i)}

RECURSIVE ReachFrom(_)
ReachFrom(S) ==
    LET T == S \cup UNION {Edges(i) : i \in S}
    IN IF T = S THEN S ELSE ReachFrom(T)

\* the containers reachable from container r, r included
Reach(r) == ReachFrom({r})

\* no container reachable from r is reachable from itself
Acyclic(r) == \A i \in Reach(r) : i \notin ReachFrom(Edges(i))

\* the references to container i held by the containers reachable from r
RefsTo(r, i) ==
    {pj \in UNION {{<<p, j>> : j \in RefPositions(p)} : p \in Reach(r)} :
        heap[pj[1]].vals[pj[2]].ref = i}

\* every container reachable from r is reached along exactly one path
TreeShaped(r) ==
    /\ RefsTo(r, r) = {}
    /\ \A i \in Reach(r) \ {r} : Cardinality(RefsTo(r, i)) = 1

RECURSIVE SumOver(_, _)
SumOver(S, f) ==
    IF S = {} THEN 0
    ELSE LET x == CHOOSE y \in S : TRUE IN f[x] + SumOver(S \ {x}, f)

\* the nodes reachable from r: its containers and their primitive children
ReachableNodes(r) ==
    Cardinality(Reach(r))
    + SumOver(Reach(r), [i \in Reach(r) |->
                           Len(heap[i].vals) - Cardinality(RefPositions(i))])

\* no container reachable from r has children cut by max_children
NoChildCut(r) ==
    Interactive =>
        \A i \in Reach(r) :
            Visible(Len(heap[i].vals), call.max_children) = Len(heap[i].vals)

RECURSIVE HasCircular(_)
HasCircular(el) ==
    \/ el = CircularLeaf
    \/ \E j \in 1..Len(el.rows) : HasCircular(el.rows[j])

\* the headers and leaves of the markup el
RECURSIVE Elements(_)
Elements(el) ==
    1 + SumOver(1..Len(el.rows), [j \in 1..Len(el.rows) |-> Elements(el.rows[j])])

RootDone == pc = "done" /\ call.obj.t = "ref"

\* C5 as claimed: for an acyclic structure no "[Circular]" marker is emitted
\* and, with no child cut, there is one header or leaf per reachable node.
C5_Acyclic ==
    (RootDone /\ Acyclic(call.obj.ref)) =>
        /\ ~HasCircular(body)
        /\ NoChildCut(call.obj.ref)
              => Elements(body) = ReachableNodes(call.obj.ref)

\* C5 as amended: the same for a structure in which every container is
\* reachable from the root along exactly one path (no cycle and no shared
\* reference).
C5_TreeShaped ==
    (RootDone /\ TreeShaped(call.obj.ref)) =>
        /\ ~HasCircular(body)
        /\ NoChildCut(call.obj.ref)
              => Elements(body) = ReachableNodes(call.obj.ref)

\* a finished render of five nested containers, nothing cut
C5_Witness ==
    /\ RootDone
    /\ TreeShaped(call.obj.ref)
    /\ Cardinality(Reach(call.obj.ref)) = 5
    /\ NoChildCut(call.obj.ref)
    /\ Elements(body) = 9

-----------------------------------------------------------------------------
(* The example {"a": 1, "b": [1, 2, 3]} rendered with the default options. *)

Punct == Span("jt-punct", <<":", " ">>)

ExampleLeaf(i, n) ==
    Div("jt-leaf", 2, <<Span("jt-key", <<"[", i, "]">>), Punct, Span("jt-num", <<n>>)>>)

ExampleBody(rootOpen, arrayOpen) ==
    Details(rootOpen, 0,
        <<Span("", <<"{", "}", " ", "O", "b", "j", "e", "c", "t", " ">>),
          Span("jt-punct", <<"(", "2", ")">>)>>,
        <<Div("jt-leaf", 1,
              <<Span("jt-key", <<"\"", "a", "\"">>), Punct, Span("jt-num", <<"1">>)>>),
          Details(arrayOpen, 1,
              <<Span("jt-key", <<"\"", "b", "\"">>), Punct,
                Span("", <<"[", "]", " ", "A", "r", "r", "a", "y", " ">>),
                Span("jt-punct", <<"(", "3", ")">>)>>,
              <<ExampleLeaf("0", "1"), ExampleLeaf("1", "2"), ExampleLeaf("2", "3")>>)>>)

ExampleRendered ==
    /\ pc = "done"
    /\ Interactive
    /\ heap = HeapExample
    /\ call.obj = Ref(1)
    /\ call.key = NoKey
    /\ call.expand_depth = DefaultExpandDepth
    /\ call.max_children = Some(DefaultMaxChildren)
    /\ call.max_string_length = Some(DefaultMaxStringLength)

\* C7 as claimed: the example renders as an Object (2) with the leaf "a": 1
\* and an Array "b" (3) that starts expanded, with the leaves [0]: 1,
\* [1]: 2, [2]: 3.
C7_ExampleArrayOpen ==
    ExampleRendered => \E rootOpen \in BOOLEAN : body = ExampleBody(rootOpen, TRUE)

\* C7 as amended: the same sections and leaves, the root Object expanded
\* and the Array "b" collapsed.
C7_ExampleArrayClosed ==
    ExampleRendered => body = ExampleBody(TRUE, FALSE)

C7_Witness == ExampleRendered /\ Len(body.rows) = 2 /\ Len(body.rows[2].rows) = 3

-----------------------------------------------------------------------------
(* Two JSON objects of the extended variant.                               *)

RECURSIVE HasMore(_)
HasMore(el) ==
    \/ el.cls = "jt-more"
    \/ \E j \in 1..Len(el.rows) : HasMore(el.rows[j])

BothInteractive(a, b) ==
    /\ instances[a].set /\ instances[b].set
    /\ instances[a].variant = "interactive"
    /\ instances[b].variant = "interactive"

\* a was built with a negative max_children, b with max_children omitted,
\* from the same data and otherwise the same options
NegativeAndOmitted(a, b) ==
    /\ BothInteractive(a, b)
    /\ instances[a].data = instances[b].data
    /\ instances[a].expand_depth = instances[b].expand_depth
    /\ instances[a].max_string_length = instances[b].max_string_length
    /\ instances[a].max_children # None
    /\ instances[a].max_children[1] < 0
    /\ instances[b].max_children = Some(DefaultMaxChildren)

SameUnlimitedBody(a, b) ==
    /\ instances[a].rendered = instances[b].rendered
    /\ ~HasMore(instances[a].rendered)
    /\ ~HasMore(instances[b].rendered)
    /\ Len(instances[b].rendered.rows) = Len(heap[instances[b].data.ref].vals)

\* C6 as claimed: a negative max_children and an omitted max_children give
\* the same body, with all children of every container and no summary row.
C6_NegativeAsOmitted ==
    \A a, b \in Slots : NegativeAndOmitted(a, b) => SameUnlimitedBody(a, b)

\* C6 as amended: the same, for data in which no container has more than
\* 100 children, the default of max_children.
C6_NegativeAsOmittedUpToDefault ==
    \A a, b \in Slots :
        (/\ NegativeAndOmitted(a, b)
         /\ \A i \in Reach(instances[a].data.ref) :
               Len(heap[i].vals) <= DefaultMaxChildren)
        => SameUnlimitedBody(a, b)

\* the six-element list built with max_children=-1 and with the default
C6_Witness ==
    /\ heap = HeapWide
    /\ NegativeAndOmitted("x", "y")
    /\ instances["x"].data = Ref(1)
    /\ Len(instances["y"].rendered.rows) = 6

\* C8: two top-level renders of the same value with the same options give
\* the same body, and a container rendered by an earlier call is not
\* reported as "[Circular]" by a later one: the seen set of a call does not
\* reach another call.
C8_CallsIndependent ==
    /\ \A a, b \in Slots :
          (/\ BothInteractive(a, b)
           /\ instances[a].data = instances[b].data
           /\ instances[a].expand_depth = instances[b].expand_depth
           /\ instances[a].max_children = instances[b].max_children
           /\ instances[a].max_string_length = instances[b].max_string_length)
          => instances[a].rendered = instances[b].rendered
    /\ \A a \in Slots :
          (instances[a].set /\ instances[a].variant = "interactive")
          => instances[a].rendered.tag = "details"

\* the same list built twice, the second time after all of its containers
\* were seen by the first call
C8_Witness ==
    /\ BothInteractive("x", "y")
    /\ heap = HeapShared
    /\ instances["x"].data = Ref(1)
    /\ instances["y"] = instances["x"]
    /\ seen = {1, 2}
    /\ Len(instances["y"].rendered.rows) = 4

-----------------------------------------------------------------------------
(* Labels of the child rows.                                               *)

\* the label of the j-th child of container o: [i] with its position for a
\* child of a list, the quoted key for a child of a mapping
KeyLabel(o, j) ==
    IF o.kind = "seq"
    THEN Span("jt-key", <<"[">> \o IntStr(j - 1) \o <<"]">>)
    ELSE Span("jt-key", <<"\"">> \o esc(KeyStr(o.keys[j])) \o <<"\"">>)

\* the rows made so far for children: <<row, container, position>>
ChildRows ==
    UNION {{<<stack[k].rows[j], heap[stack[k].obj], j>> :
              j \in 1..Min(Len(stack[k].rows), Len(heap[stack[k].obj].vals))} :
           k \in FrameIdx}

\* C10: every rendered child of a container, be it a section, a primitive
\* leaf or a "[Circular]" leaf, starts with its own key or index label.
C10_ChildLabelled ==
    \A r \in ChildRows :
        /\ r[1].line # <<>>
        /\ r[1].line[1] = KeyLabel(r[2], r[3])

\* what the code does keep: every child row other than a "[Circular]" leaf
\* starts with its label
C10_ChildLabelledUnlessCircular ==
    \A r \in ChildRows :
        r[1] # CircularLeaf =>
            /\ r[1].line # <<>>
            /\ r[1].line[1] = KeyLabel(r[2], r[3])

-----------------------------------------------------------------------------
(* The two variants side by side.                                          *)

\* a is a JSON of the minimal variant, b one of the extended variant built
\* from the same data with the same expand_depth and both limits off
MinimalAndUnlimited(a, b) ==
    /\ instances[a].set /\ instances[b].set
    /\ instances[a].variant = "minimal"
    /\ instances[b].variant = "interactive"
    /\ instances[a].data = instances[b].data
    /\ instances[a].expand_depth = instances[b].expand_depth
    /\ instances[b].max_children \in Unlimited
    /\ instances[b].max_string_length \in Unlimited

\* C11: for every value and expand_depth the body of the minimal variant
\* equals the body of the extended variant with max_children and
\* max_string_length both unlimited (None) or negative.
C11_VariantsAgree ==
    \A a, b \in Slots :
        MinimalAndUnlimited(a, b) => instances[a].rendered = instances[b].rendered

\* the five nested containers rendered by the minimal variant and by the
\* extended variant with max_children=None, max_string_length=-1
C11_Witness ==
    /\ heap = HeapDeep
    /\ MinimalAndUnlimited("x", "y")
    /\ instances["x"].data = Ref(1)
    /\ instances["y"].max_children = None
    /\ instances["y"].max_string_length = Some(-1)
    /\ instances["y"].rendered.tag = "details"
    /\ Elements(instances["y"].rendered) = 9

====
